---------------------------- MODULE Spec2Model ----------------------------
(***************************************************************************)
(* A model of efiXplorer/efiHexRays.cpp: the field-offset lookup OffsetOf, *)
(* the array classifier IsPODArray and the driver                          *)
(* applyAllTypesForInterfaces with its two GUIDRetyper traversals.         *)
(***************************************************************************)
EXTENDS Integers, Sequences, FiniteSets, TLC

(***************************************************************************)
(* Machine integers.  The values of interest lie beyond the range of the   *)
(* model checker's own integers, so a 32-bit value is a pair of 16-bit     *)
(* limbs [hi, lo] and a 64-bit value a sequence <<l3, l2, l1, l0>> of four *)
(* limbs, most significant first.  All arithmetic is done on limbs and     *)
(* keeps the width of the C++ type.                                        *)
(***************************************************************************)
Limb == 2^16
HalfLimb == 2^15

U32(h, l) == [hi |-> h, lo |-> l]
U32Zero == U32(0, 0)

\* unsigned 32-bit x + 1, wrapping at 2^32
U32Inc(x) ==
    IF x.lo + 1 < Limb THEN U32(x.hi, x.lo + 1)
    ELSE U32((x.hi + 1) % Limb, 0)

\* the same 32 bits read as a signed int: is the value > 0 ?
I32Positive(x) == x.hi < HalfLimb /\ (x.hi > 0 \/ x.lo > 0)

\* --x on a positive signed int
I32Dec(x) ==
    IF x.lo > 0 THEN U32(x.hi, x.lo - 1)
    ELSE U32((x.hi + Limb - 1) % Limb, Limb - 1)

\* 64-bit b >> 3, limb by limb
U64Shr3(b) ==
    [i \in 1..4 |->
        (b[i] \div 8) + (IF i = 1 THEN 0 ELSE (b[i - 1] % 8) * (Limb \div 8))]

\* static_cast<unsigned int> of a 64-bit value: the low 32 bits
U64ToU32(b) == U32(b[3], b[4])

\* a 32-bit value widened to 64 bits
U32ToU64(x) == <<0, 0, x.hi, x.lo>>

(***************************************************************************)
(* Bounds of the model.                                                    *)
(***************************************************************************)
MaxPtrLayers == 2      \* pointer layers on an array's element type
MaxMembers == 2        \* members of a user-defined type
MaxRecords == 2        \* usage records handed to the driver
MaxCalls == 2          \* call expressions in one decompiled body

VARIABLES
    podArg, podRet,            \* IsPODArray: its arguments and its result
    offArg, offRet,            \* OffsetOf: its arguments and its result
    protocols,                 \* the driver's parameter
    pc,                        \* the driver's position
    idx,                       \* position of the range-for in protocols
    sdBs, sdSmm,               \* the two ServiceDescriptor objects
    mBs, mSmm,                 \* the two ServiceDescriptorMap objects
    retyperBs, retyperSmm,     \* the two GUIDRetyper objects
    f, cfunc,                  \* get_func's and decompile's results
    pos,                       \* position of a traversal in the body
    store,                     \* the persisted variable types (modify_user_lvar_info)
    log                        \* history: what the driver did, in order

pureVars == <<podArg, podRet, offArg, offRet>>
driverVars == <<protocols, pc, idx, sdBs, sdSmm, mBs, mSmm, retyperBs,
                retyperSmm, f, cfunc, pos, store, log>>
vars == <<podArg, podRet, offArg, offRet, protocols, pc, idx, sdBs, sdSmm,
          mBs, mSmm, retyperBs, retyperSmm, f, cfunc, pos, store, log>>

(***************************************************************************)
(* OffsetOf.                                                               *)
(* A tinfo_t is seen through the three queries the function makes:         *)
(* get_udt_details (udtOk, and the members with their bit offsets) and     *)
(* find_udt_member by name.                                                *)
(***************************************************************************)
MemberNames == {"Revision", "Read", "Write"}

\* bit offsets of members: small ones, one inside a byte, and the ones
\* around 2^35 bits = 2^32 bytes, up to the largest 64-bit value
BitOffsets ==
    { <<0, 0, 0, 0>>, <<0, 0, 0, 64>>, <<0, 0, 0, 69>>,
      <<0, 7, Limb - 1, Limb - 8>>,      \* 2^35 - 8
      <<0, 8, 0, 0>>,                    \* 2^35
      <<0, 8, 0, 64>>,                   \* 2^35 + 64
      <<Limb - 1, Limb - 1, Limb - 1, Limb - 1>> }

Members == [name : MemberNames, offset : BitOffsets]

DistinctNames(ms) ==
    \A i, j \in 1..Len(ms) : i # j => ms[i].name # ms[j].name

UdtTypes ==
    { t \in [udtOk : BOOLEAN,
             members : UNION { [1..n -> Members] : n \in 0..MaxMembers }] :
        DistinctNames(t.members) }

\* tif.find_udt_member(&udm, STRMEM_NAME): the index of the member, or -1
find_udt_member(tif, name) ==
    IF \E i \in 1..Len(tif.members) : tif.members[i].name = name
    THEN (CHOOSE i \in 1..Len(tif.members) : tif.members[i].name = name) - 1
    ELSE -1

\* what *offset held before the call
OffsetBefore == { U32Zero, U32(Limb - 1, Limb - 1) }

\* bool OffsetOf(tinfo_t tif, const char *name, unsigned int *offset):
\* ret is the returned value, offset is *offset after the call
OffsetOf(tif, name, offset) ==
    IF ~tif.udtOk THEN [ret |-> FALSE, offset |-> offset]
    ELSE LET fIdx == find_udt_member(tif, name) IN
         IF fIdx < 0 THEN [ret |-> FALSE, offset |-> offset]
         ELSE [ret |-> TRUE,
               offset |-> U64ToU32(U64Shr3(tif.members[fIdx + 1].offset))]

NoCall == [called |-> FALSE]

OffInit ==
    /\ offArg \in [tif : UdtTypes, name : MemberNames, offset : OffsetBefore]
    /\ offRet = NoCall

CallOffsetOf ==
    /\ ~offRet.called
    /\ LET r == OffsetOf(offArg.tif, offArg.name, offArg.offset) IN
       offRet' = [called |-> TRUE, ret |-> r.ret, offset |-> r.offset]
    /\ UNCHANGED <<podArg, podRet, offArg>>
    /\ UNCHANGED driverVars

(***************************************************************************)
(* IsPODArray.                                                             *)
(* A tinfo_t is seen through the queries the function makes: is_array,     *)
(* get_array_details, and, on the element type and on what remove_pointer  *)
(* yields from it, is_typeid_last(get_realtype()), is_decl_last and        *)
(* is_ptr.  elem[1] is the element type and elem[k + 1] is                 *)
(* remove_pointer(elem[k]); elem[k] is a pointer exactly when k < Len.     *)
(* The two classification results of every layer are free.                 *)
(***************************************************************************)
Layer == [b1 : BOOLEAN, b2 : BOOLEAN]

ElemChains == UNION { [1..n -> Layer] : n \in 1..(MaxPtrLayers + 1) }

\* get_array_details succeeds on every array type
ArrayTypes == [is_array : {TRUE}, details : {TRUE}, elem : ElemChains]

NonArrayTypes == [is_array : {FALSE}, details : {FALSE}, elem : ElemChains]

\* the depths passed as ptrDepth: the small ones, and the ones around the
\* largest signed and the largest unsigned 32-bit value
PtrDepths ==
    { U32(0, d) : d \in 0..(MaxPtrLayers + 1) } \cup
    { U32(HalfLimb - 1, Limb - 2),     \* 0x7FFFFFFE
      U32(HalfLimb - 1, Limb - 1),     \* 0x7FFFFFFF
      U32(Limb - 1, Limb - 1) }        \* 0xFFFFFFFF

is_ptr(elem, k) == k < Len(elem)

\* checks only the type left after ptrDepth strips, not the ones before
RECURSIVE PodLoopLastOnly(_, _, _, _)
PodLoopLastOnly(elem, k, iDepth, checks) ==
    IF ~I32Positive(iDepth) THEN [ret |-> FALSE, checks |-> checks]
    ELSE LET d == I32Dec(iDepth) IN
         IF ~I32Positive(d)
         THEN [ret |-> elem[k].b1 \/ elem[k].b2, checks |-> checks + 1]
         ELSE IF is_ptr(elem, k) THEN PodLoopLastOnly(elem, k + 1, d, checks)
              ELSE [ret |-> FALSE, checks |-> checks]

IsPODArray_lastOnly(tif, ptrDepth) ==
    IF ~tif.is_array THEN [ret |-> FALSE, checks |-> 0]
    ELSE IF ~tif.details THEN [ret |-> FALSE, checks |-> 0]
    ELSE PodLoopLastOnly(tif.elem, 1, U32Inc(ptrDepth), 0)

\* the while loop: elem[k] is et, checks counts the evaluations of b1 and b2
RECURSIVE PodLoop(_, _, _, _)
PodLoop(elem, k, iDepth, checks) ==
    IF ~I32Positive(iDepth) THEN [ret |-> FALSE, checks |-> checks]
    ELSE LET b1 == elem[k].b1
             b2 == elem[k].b2
             d == I32Dec(iDepth)
         IN  IF b1 \/ b2 THEN [ret |-> TRUE, checks |-> checks + 1]
             ELSE IF I32Positive(d)
                  THEN IF is_ptr(elem, k)
                       THEN PodLoop(elem, k + 1, d, checks + 1)
                       ELSE [ret |-> FALSE, checks |-> checks + 1]
                  ELSE PodLoop(elem, k, d, checks + 1)

\* bool IsPODArray(tinfo_t tif, unsigned int ptrDepth): ret is the returned
\* value, checks the number of passes through the loop body
IsPODArray(tif, ptrDepth) ==
    IF ~tif.is_array THEN [ret |-> FALSE, checks |-> 0]
    ELSE IF ~tif.details THEN [ret |-> FALSE, checks |-> 0]
    ELSE PodLoop(tif.elem, 1, U32Inc(ptrDepth), 0)

PodInit ==
    /\ podArg \in [tif : ArrayTypes \cup NonArrayTypes, ptrDepth : PtrDepths]
    /\ podRet = NoCall

CallIsPODArray ==
    /\ ~podRet.called
    /\ LET r == IsPODArray(podArg.tif, podArg.ptrDepth) IN
       podRet' = [called |-> TRUE, ret |-> r.ret, checks |-> r.checks]
    /\ UNCHANGED <<podArg, offArg, offRet>>
    /\ UNCHANGED driverVars

(***************************************************************************)
(* The driver and what it works on.                                        *)
(***************************************************************************)

\* the addresses usage records carry, and the two functions of the database:
\* one at 4096 that contains 4112, one at 8192 that contains 8200; no
\* function contains 12288
Addrs == {4112, 8200, 12288}

Null == [null |-> TRUE]

\* func_t *get_func(ea)
get_func(ea) ==
    CASE ea = 4112 -> [null |-> FALSE, start_ea |-> 4096]
      [] ea = 8200 -> [null |-> FALSE, start_ea |-> 8192]
      [] OTHER -> Null

\* a usage record: protocol["ea"] and protocol["service"]; the address in
\* the first function comes with either hint
ServiceHints == {"LocateProtocol", "SmmLocateProtocol"}
Records ==
    { r \in [ea : Addrs, service : ServiceHints] :
        r.ea = 4112 \/ r.service = (IF r.ea = 8200 THEN "SmmLocateProtocol"
                                                   ELSE "LocateProtocol") }
ProtocolLists == UNION { [1..n -> Records] : n \in 0..MaxRecords }

\* struct TargetFunctionPointer BootServicesFunctions[3], with 0x0 in place
\* of LocateProtocol's 0x140
BootServicesFunctions_offsetZero ==
    << [name |-> "HandleProtocol", tableOffset |-> 152, argCount |-> 3,
        guidArgIndex |-> 1, interfaceArgIndex |-> 2],
       [name |-> "LocateProtocol", tableOffset |-> 0, argCount |-> 3,
        guidArgIndex |-> 0, interfaceArgIndex |-> 2],
       [name |-> "OpenProtocol", tableOffset |-> 280, argCount |-> 6,
        guidArgIndex |-> 1, interfaceArgIndex |-> 2] >>

\* struct TargetFunctionPointer BootServicesFunctions[3]
\* (0x98 = 152, 0x140 = 320, 0x118 = 280)
BootServicesFunctions ==
    << [name |-> "HandleProtocol", tableOffset |-> 152, argCount |-> 3,
        guidArgIndex |-> 1, interfaceArgIndex |-> 2],
       [name |-> "LocateProtocol", tableOffset |-> 320, argCount |-> 3,
        guidArgIndex |-> 0, interfaceArgIndex |-> 2],
       [name |-> "OpenProtocol", tableOffset |-> 280, argCount |-> 6,
        guidArgIndex |-> 1, interfaceArgIndex |-> 2] >>

\* struct TargetFunctionPointer SmmServicesFunctions[2], with the interface
\* argument index of SmmLocateProtocol one too far
SmmServicesFunctions_badIndex ==
    << [name |-> "SmmHandleProtocol", tableOffset |-> 184, argCount |-> 3,
        guidArgIndex |-> 1, interfaceArgIndex |-> 2],
       [name |-> "SmmLocateProtocol", tableOffset |-> 208, argCount |-> 3,
        guidArgIndex |-> 0, interfaceArgIndex |-> 3] >>

\* struct TargetFunctionPointer SmmServicesFunctions[2]
\* (0xb8 = 184, 0xd0 = 208)
SmmServicesFunctions ==
    << [name |-> "SmmHandleProtocol", tableOffset |-> 184, argCount |-> 3,
        guidArgIndex |-> 1, interfaceArgIndex |-> 2],
       [name |-> "SmmLocateProtocol", tableOffset |-> 208, argCount |-> 3,
        guidArgIndex |-> 0, interfaceArgIndex |-> 2] >>

\* a default-constructed ServiceDescriptor
EmptyDescriptor == [name |-> "", targets |-> <<>>]

\* ServiceDescriptor::Initialize(name, targets, num)
Initialize(name, targets, num) ==
    [name |-> name, targets |-> SubSeq(targets, 1, num)]

\* ServiceDescriptorMap::Register(sd): the map as the set of its tables
Register(m, sd) == m \cup {sd}

\* a GUIDRetyper before its constructor has run; -1 stands for the value of
\* an address member no setter has written yet
NoRetyper ==
    [constructed |-> FALSE, services |-> "", protocols |-> <<>>,
     codeEa |-> -1, funcEa |-> -1]

\* GUIDRetyper(m): the visitor keeps a reference to the map m
GUIDRetyper(m) ==
    [constructed |-> TRUE, services |-> m, protocols |-> <<>>,
     codeEa |-> -1, funcEa |-> -1]

SetProtocols(r, ps) == [r EXCEPT !.protocols = ps]
SetCodeEa(r, ea) == [r EXCEPT !.codeEa = ea]
SetFuncEa(r, ea) == [r EXCEPT !.funcEa = ea]

\* bool SetHexRaysVariableType(funcEa, ll, tif): accepted says whether
\* modify_user_lvar_info takes the change
SetHexRaysVariableType(st, funcEa, ll, tif, accepted) ==
    IF ~accepted THEN [ret |-> FALSE, store |-> st]
    ELSE [ret |-> TRUE,
          store |-> {e \in st : ~(e.func = funcEa /\ e.var = ll)} \cup
                    {[func |-> funcEa, var |-> ll, type |-> tif]}]

(***************************************************************************)
(* Decompiled bodies.  A body is the sequence of its call expressions in   *)
(* the order the traversal meets them.  A call has the byte offset of its  *)
(* target in the table, its number of arguments, its GUID argument (a      *)
(* constant the registry knows, a constant it does not know, or a value    *)
(* computed at run time) and the variable that receives the interface,     *)
(* with that variable's type.                                              *)
(***************************************************************************)
PtrVar == [is_array |-> FALSE, details |-> FALSE,
           elem |-> << [b1 |-> FALSE, b2 |-> FALSE] >>]
PodArrayVar == [is_array |-> TRUE, details |-> TRUE,
                elem |-> << [b1 |-> FALSE, b2 |-> FALSE],
                            [b1 |-> TRUE, b2 |-> TRUE] >>]

CallExprs ==
    { [offset |-> 152, nArgs |-> 3, guid |-> "known", var |-> "v1", type |-> PtrVar],
      [offset |-> 208, nArgs |-> 3, guid |-> "known", var |-> "v2", type |-> PodArrayVar],
      [offset |-> 0, nArgs |-> 3, guid |-> "known", var |-> "v3", type |-> PtrVar],
      [offset |-> 184, nArgs |-> 3, guid |-> "dynamic", var |-> "v2", type |-> PtrVar] }

Bodies == UNION { [1..n -> CallExprs] : n \in 0..MaxCalls }

\* the descriptors of the tables registered in the map a retyper refers to
Descriptors(r) ==
    LET m == IF r.services = "mBs" THEN mBs ELSE mSmm
    IN  UNION { { sd.targets[i] : i \in 1..Len(sd.targets) } : sd \in m }

\* the type a destination variable is given, or "none" for a shape that is
\* not recognised
DestinationType(tif) ==
    IF ~tif.is_array THEN "Interface*"
    ELSE IF IsPODArray(tif, U32(0, 1)).ret THEN "Interface*[]"
    ELSE "none"

\* GUIDRetyper: the visit of one call expression, steps 1 to 6
VisitCall(r, call, st, accepted) ==
    LET ds == { d \in Descriptors(r) : d.tableOffset = call.offset } IN
    IF ds = {} THEN st
    ELSE LET d == CHOOSE x \in ds : TRUE IN
         IF call.nArgs # d.argCount THEN st
         ELSE IF call.guid = "dynamic" THEN st
         ELSE IF call.guid # "known" THEN st
         ELSE IF ~(\E i \in 1..Len(r.protocols) : r.protocols[i].ea = r.codeEa)
              THEN st
         ELSE IF DestinationType(call.type) = "none" THEN st
         ELSE SetHexRaysVariableType(st, r.funcEa, call.var,
                                     DestinationType(call.type), accepted).store

(***************************************************************************)
(* applyAllTypesForInterfaces, statement by statement.                     *)
(***************************************************************************)
Event(e, i) == [ev |-> e, rec |-> i]

DriverInit ==
    /\ protocols \in ProtocolLists
    /\ pc = "initBs"
    /\ idx = 1
    /\ sdBs = EmptyDescriptor
    /\ sdSmm = EmptyDescriptor
    /\ mBs = {}
    /\ mSmm = {}
    /\ retyperBs = NoRetyper
    /\ retyperSmm = NoRetyper
    /\ f = Null
    /\ cfunc = Null
    /\ pos = 0
    /\ store = {}
    /\ log = <<>>

\* sdBs.Initialize("EFI_BOOT_SERVICES", BootServicesFunctions, 3)
InitializeBs ==
    /\ pc = "initBs"
    /\ sdBs' = Initialize("EFI_BOOT_SERVICES", BootServicesFunctions, 3)
    /\ pc' = "initSmm"
    /\ UNCHANGED <<protocols, idx, sdSmm, mBs, mSmm, retyperBs, retyperSmm,
                   f, cfunc, pos, store, log>>
    /\ UNCHANGED pureVars

\* sdSmm.Initialize("_EFI_SMM_SYSTEM_TABLE2", SmmServicesFunctions, 2)
InitializeSmm ==
    /\ pc = "initSmm"
    /\ sdSmm' = Initialize("_EFI_SMM_SYSTEM_TABLE2", SmmServicesFunctions, 2)
    /\ pc' = "regBs"
    /\ UNCHANGED <<protocols, idx, sdBs, mBs, mSmm, retyperBs, retyperSmm,
                   f, cfunc, pos, store, log>>
    /\ UNCHANGED pureVars

\* mBs.Register(sdBs)
RegisterBs ==
    /\ pc = "regBs"
    /\ mBs' = Register(mBs, sdBs)
    /\ pc' = "regSmm"
    /\ UNCHANGED <<protocols, idx, sdBs, sdSmm, mSmm, retyperBs, retyperSmm,
                   f, cfunc, pos, store, log>>
    /\ UNCHANGED pureVars

\* leaves mSmm as it is
RegisterSmm_forgotten ==
    /\ pc = "regSmm"
    /\ pc' = "construct"
    /\ UNCHANGED <<protocols, idx, sdBs, sdSmm, mBs, mSmm, retyperBs,
                   retyperSmm, f, cfunc, pos, store, log>>
    /\ UNCHANGED pureVars

\* mSmm.Register(sdSmm)
RegisterSmm ==
    /\ pc = "regSmm"
    /\ mSmm' = Register(mSmm, sdSmm)
    /\ pc' = "construct"
    /\ UNCHANGED <<protocols, idx, sdBs, sdSmm, mBs, retyperBs, retyperSmm,
                   f, cfunc, pos, store, log>>
    /\ UNCHANGED pureVars

\* GUIDRetyper retyperBs(mBs); GUIDRetyper retyperSmm(mSmm)
ConstructRetypers ==
    /\ pc = "construct"
    /\ retyperBs' = GUIDRetyper("mBs")
    /\ retyperSmm' = GUIDRetyper("mSmm")
    /\ pc' = "protBs"
    /\ UNCHANGED <<protocols, idx, sdBs, sdSmm, mBs, mSmm, f, cfunc, pos,
                   store, log>>
    /\ UNCHANGED pureVars

\* retyperBs.SetProtocols(protocols)
SetProtocolsBs ==
    /\ pc = "protBs"
    /\ retyperBs' = SetProtocols(retyperBs, protocols)
    /\ pc' = "protSmm"
    /\ UNCHANGED <<protocols, idx, sdBs, sdSmm, mBs, mSmm, retyperSmm, f,
                   cfunc, pos, store, log>>
    /\ UNCHANGED pureVars

\* retyperSmm.SetProtocols(protocols)
SetProtocolsSmm ==
    /\ pc = "protSmm"
    /\ retyperSmm' = SetProtocols(retyperSmm, protocols)
    /\ pc' = "loop"
    /\ UNCHANGED <<protocols, idx, sdBs, sdSmm, mBs, mSmm, retyperBs, f,
                   cfunc, pos, store, log>>
    /\ UNCHANGED pureVars

\* for (auto protocol : protocols): the next record if there is one
LoopHead ==
    /\ pc = "loop"
    /\ IF idx <= Len(protocols)
       THEN /\ pc' = "getFunc"
            /\ log' = Append(log, Event("visit", idx))
       ELSE /\ pc' = "done"
            /\ log' = log
    /\ UNCHANGED <<protocols, idx, sdBs, sdSmm, mBs, mSmm, retyperBs,
                   retyperSmm, f, cfunc, pos, store>>
    /\ UNCHANGED pureVars

\* a record without a function ends the loop
GetFunc_break ==
    /\ pc = "getFunc"
    /\ LET r == get_func(protocols[idx].ea) IN
       IF r.null
       THEN /\ f' = Null
            /\ idx' = idx
            /\ pc' = "done"
            /\ log' = Append(log, Event("noFunc", idx))
       ELSE /\ f' = r
            /\ idx' = idx
            /\ pc' = "codeBs"
            /\ log' = log
    /\ UNCHANGED <<protocols, sdBs, sdSmm, mBs, mSmm, retyperBs, retyperSmm,
                   cfunc, pos, store>>
    /\ UNCHANGED pureVars

\* func_t *f = get_func(code_addr); if (f == nullptr) continue;
GetFunc ==
    /\ pc = "getFunc"
    /\ LET r == get_func(protocols[idx].ea) IN
       IF r.null
       THEN /\ f' = Null
            /\ idx' = idx + 1
            /\ pc' = "loop"
            /\ log' = Append(log, Event("noFunc", idx))
       ELSE /\ f' = r
            /\ idx' = idx
            /\ pc' = "codeBs"
            /\ log' = log
    /\ UNCHANGED <<protocols, sdBs, sdSmm, mBs, mSmm, retyperBs, retyperSmm,
                   cfunc, pos, store>>
    /\ UNCHANGED pureVars

\* retyperBs.SetCodeEa(code_addr)
SetCodeEaBs ==
    /\ pc = "codeBs"
    /\ retyperBs' = SetCodeEa(retyperBs, protocols[idx].ea)
    /\ pc' = "codeSmm"
    /\ UNCHANGED <<protocols, idx, sdBs, sdSmm, mBs, mSmm, retyperSmm, f,
                   cfunc, pos, store, log>>
    /\ UNCHANGED pureVars

\* retyperSmm.SetCodeEa(code_addr)
SetCodeEaSmm ==
    /\ pc = "codeSmm"
    /\ retyperSmm' = SetCodeEa(retyperSmm, protocols[idx].ea)
    /\ pc' = "funcBs"
    /\ UNCHANGED <<protocols, idx, sdBs, sdSmm, mBs, mSmm, retyperBs, f,
                   cfunc, pos, store, log>>
    /\ UNCHANGED pureVars

\* retyperBs.SetFuncEa(f->start_ea)
SetFuncEaBs ==
    /\ pc = "funcBs"
    /\ retyperBs' = SetFuncEa(retyperBs, f.start_ea)
    /\ pc' = "funcSmm"
    /\ UNCHANGED <<protocols, idx, sdBs, sdSmm, mBs, mSmm, retyperSmm, f,
                   cfunc, pos, store, log>>
    /\ UNCHANGED pureVars

\* sets the function address only while none has been set
SetFuncEaSmm_onlyOnce ==
    /\ pc = "funcSmm"
    /\ retyperSmm' = IF retyperSmm.funcEa = -1
                     THEN SetFuncEa(retyperSmm, f.start_ea)
                     ELSE retyperSmm
    /\ pc' = "decompile"
    /\ UNCHANGED <<protocols, idx, sdBs, sdSmm, mBs, mSmm, retyperBs, f,
                   cfunc, pos, store, log>>
    /\ UNCHANGED pureVars

\* retyperSmm.SetFuncEa(f->start_ea)
SetFuncEaSmm ==
    /\ pc = "funcSmm"
    /\ retyperSmm' = SetFuncEa(retyperSmm, f.start_ea)
    /\ pc' = "decompile"
    /\ UNCHANGED <<protocols, idx, sdBs, sdSmm, mBs, mSmm, retyperBs, f,
                   cfunc, pos, store, log>>
    /\ UNCHANGED pureVars

\* cfuncptr_t cfunc = decompile(f, &hf); if (cfunc == nullptr) continue;
\* the decompiler fails or yields a body
Decompile ==
    /\ pc = "decompile"
    /\ \E r \in {Null} \cup [null : {FALSE}, body : Bodies] :
          IF r.null
          THEN /\ cfunc' = Null
               /\ f' = Null
               /\ idx' = idx + 1
               /\ pc' = "loop"
               /\ log' = Append(log, Event("noDecompile", idx))
          ELSE /\ cfunc' = r
               /\ f' = f
               /\ idx' = idx
               /\ pc' = "applyBs"
               /\ log' = Append(log, Event("decompiled", idx))
    /\ UNCHANGED <<protocols, sdBs, sdSmm, mBs, mSmm, retyperBs, retyperSmm,
                   pos, store>>
    /\ UNCHANGED pureVars

\* retyperBs.apply_to(&cfunc->body, nullptr): the traversal starts
ApplyBsBegin ==
    /\ pc = "applyBs"
    /\ pos' = 1
    /\ pc' = "visitBs"
    /\ log' = Append(log, Event("bsBegin", idx))
    /\ UNCHANGED <<protocols, idx, sdBs, sdSmm, mBs, mSmm, retyperBs,
                   retyperSmm, f, cfunc, store>>
    /\ UNCHANGED pureVars

\* the boot-services traversal visits the next call of the body
VisitBs ==
    /\ pc = "visitBs"
    /\ pos <= Len(cfunc.body)
    /\ \E accepted \in BOOLEAN :
          store' = VisitCall(retyperBs, cfunc.body[pos], store, accepted)
    /\ pos' = pos + 1
    /\ UNCHANGED <<protocols, pc, idx, sdBs, sdSmm, mBs, mSmm, retyperBs,
                   retyperSmm, f, cfunc, log>>
    /\ UNCHANGED pureVars

\* the boot-services traversal returns and the body is dropped
ApplyBsEnd_skipSmm ==
    /\ pc = "visitBs"
    /\ pos > Len(cfunc.body)
    /\ pos' = 0
    /\ cfunc' = Null
    /\ f' = Null
    /\ idx' = idx + 1
    /\ pc' = "loop"
    /\ log' = Append(log, Event("bsEnd", idx))
    /\ UNCHANGED <<protocols, sdBs, sdSmm, mBs, mSmm, retyperBs, retyperSmm,
                   store>>
    /\ UNCHANGED pureVars

\* the boot-services traversal returns
ApplyBsEnd ==
    /\ pc = "visitBs"
    /\ pos > Len(cfunc.body)
    /\ pos' = 0
    /\ cfunc' = cfunc
    /\ f' = f
    /\ idx' = idx
    /\ pc' = "applySmm"
    /\ log' = Append(log, Event("bsEnd", idx))
    /\ UNCHANGED <<protocols, sdBs, sdSmm, mBs, mSmm, retyperBs, retyperSmm,
                   store>>
    /\ UNCHANGED pureVars

\* retyperSmm.apply_to(&cfunc->body, nullptr): the traversal starts
ApplySmmBegin ==
    /\ pc = "applySmm"
    /\ pos' = 1
    /\ pc' = "visitSmm"
    /\ log' = Append(log, Event("smmBegin", idx))
    /\ UNCHANGED <<protocols, idx, sdBs, sdSmm, mBs, mSmm, retyperBs,
                   retyperSmm, f, cfunc, store>>
    /\ UNCHANGED pureVars

\* the SMM traversal visits the next call of the body
VisitSmm ==
    /\ pc = "visitSmm"
    /\ pos <= Len(cfunc.body)
    /\ \E accepted \in BOOLEAN :
          store' = VisitCall(retyperSmm, cfunc.body[pos], store, accepted)
    /\ pos' = pos + 1
    /\ UNCHANGED <<protocols, pc, idx, sdBs, sdSmm, mBs, mSmm, retyperBs,
                   retyperSmm, f, cfunc, log>>
    /\ UNCHANGED pureVars

\* the SMM traversal returns; the iteration ends and its locals go
ApplySmmEnd ==
    /\ pc = "visitSmm"
    /\ pos > Len(cfunc.body)
    /\ pos' = 0
    /\ cfunc' = Null
    /\ f' = Null
    /\ idx' = idx + 1
    /\ pc' = "loop"
    /\ log' = Append(log, Event("smmEnd", idx))
    /\ UNCHANGED <<protocols, sdBs, sdSmm, mBs, mSmm, retyperBs, retyperSmm,
                   store>>
    /\ UNCHANGED pureVars

PureIdle ==
    /\ podArg = NoCall
    /\ podRet = NoCall
    /\ offArg = NoCall
    /\ offRet = NoCall

DriverIdle ==
    /\ protocols = <<>>
    /\ pc = "idle"
    /\ idx = 1
    /\ sdBs = EmptyDescriptor
    /\ sdSmm = EmptyDescriptor
    /\ mBs = {}
    /\ mSmm = {}
    /\ retyperBs = NoRetyper
    /\ retyperSmm = NoRetyper
    /\ f = Null
    /\ cfunc = Null
    /\ pos = 0
    /\ store = {}
    /\ log = <<>>

(***************************************************************************)
(* The specifications: the driver, and one for each of the two functions   *)
(* that are called on their own.                                           *)
(***************************************************************************)
Init == DriverInit /\ PureIdle

Next ==
    \/ InitializeBs
    \/ InitializeSmm
    \/ RegisterBs
    \/ RegisterSmm
    \/ ConstructRetypers
    \/ SetProtocolsBs
    \/ SetProtocolsSmm
    \/ LoopHead
    \/ GetFunc
    \/ SetCodeEaBs
    \/ SetCodeEaSmm
    \/ SetFuncEaBs
    \/ SetFuncEaSmm
    \/ Decompile
    \/ ApplyBsBegin
    \/ VisitBs
    \/ ApplyBsEnd
    \/ ApplySmmBegin
    \/ VisitSmm
    \/ ApplySmmEnd

Spec == Init /\ [][Next]_vars

\* the driver is one sequential function: it takes its next step
FairSpec == Spec /\ WF_vars(Next)

PodSpecInit == PodInit /\ offArg = NoCall /\ offRet = NoCall /\ DriverIdle
PodSpec == PodSpecInit /\ [][CallIsPODArray]_vars

OffSpecInit == OffInit /\ podArg = NoCall /\ podRet = NoCall /\ DriverIdle
OffSpec == OffSpecInit /\ [][CallOffsetOf]_vars

(***************************************************************************)
(* Properties.                                                             *)
(***************************************************************************)
Min(a, b) == IF a <= b THEN a ELSE b

\* a <= b on unsigned 32-bit values
U32Le(a, b) == a.hi < b.hi \/ (a.hi = b.hi /\ a.lo <= b.lo)

\* the events of the log with a given name, and the set of all its events
EventsNamed(e) == SelectSeq(log, LAMBDA x : x.ev = e)
Logged == { log[p] : p \in 1..Len(log) }

Skipped(i) == Event("noFunc", i) \in Logged \/ Event("noDecompile", i) \in Logged
Traversed(i) == Event("bsBegin", i) \in Logged \/ Event("smmBegin", i) \in Logged

\* C1: the loop ends, and when it has ended every record has been visited
\* exactly once and in input order, whatever records were skipped before it;
\* a record without a function or whose function does not decompile has no
\* traversal.
C1_BatchContinuation ==
    <>( /\ pc = "done"
        /\ Len(EventsNamed("visit")) = Len(protocols)
        /\ \A i \in 1..Len(protocols) : EventsNamed("visit")[i].rec = i
        /\ \A i \in 1..Len(protocols) :
              /\ get_func(protocols[i].ea).null => Event("noFunc", i) \in Logged
              /\ Skipped(i) => ~Traversed(i)
              /\ ~Skipped(i) => Traversed(i) )

\* a record whose function did not decompile, and a later one with both
\* traversals done
C1_Witness ==
    /\ pc = "done"
    /\ \E i, j \in 1..Len(protocols) :
          /\ i < j
          /\ Event("noDecompile", i) \in Logged
          /\ Event("smmEnd", j) \in Logged

\* the order of the events of one record, and of records among each other
LogOrdered ==
    /\ \A p \in 1..Len(log) :
          LET e == log[p] IN
          /\ e.ev = "bsBegin" => p > 1 /\ log[p - 1] = Event("decompiled", e.rec)
          /\ e.ev = "bsEnd" => p > 1 /\ log[p - 1] = Event("bsBegin", e.rec)
          /\ e.ev = "smmBegin" => p > 1 /\ log[p - 1] = Event("bsEnd", e.rec)
          /\ e.ev = "smmEnd" => p > 1 /\ log[p - 1] = Event("smmBegin", e.rec)
          /\ e.ev = "visit" =>
                \/ p = 1 /\ e.rec = 1
                \/ /\ p > 1
                   /\ log[p - 1].ev \in {"noFunc", "noDecompile", "smmEnd"}
                   /\ log[p - 1].rec = e.rec - 1
          /\ e.ev \in {"noFunc", "noDecompile", "decompiled"} =>
                p > 1 /\ log[p - 1] = Event("visit", e.rec)
    /\ pc \in {"loop", "done"} /\ log # <<>> =>
          log[Len(log)].ev \in {"noFunc", "noDecompile", "smmEnd"}

InTraversal == pc \in {"applyBs", "visitBs", "applySmm", "visitSmm"}

\* C2: a record whose function decompiles gets the boot-services traversal
\* and then the SMM traversal, both over the body decompile returned and
\* both finished before the next record is visited, whatever its hint.
C2_TwoTraversalsInOrder ==
    /\ [](LogOrdered /\ (InTraversal => ~cfunc.null))
    /\ [][InTraversal /\ pc' # "loop" => cfunc' = cfunc]_vars

\* a record with a boot-services hint that got both traversals, the next
\* record already visited
C2_Witness ==
    \E i \in 1..Len(protocols) :
        /\ protocols[i].service = "LocateProtocol"
        /\ Event("smmEnd", i) \in Logged
        /\ Event("visit", i + 1) \in Logged

AllDescriptors ==
    UNION { { sd.targets[i] : i \in 1..Len(sd.targets) } :
            sd \in mBs \cup mSmm \cup {sdBs, sdSmm} }

\* C3: every descriptor of a table has its GUID argument index and its
\* interface argument index below its argument count.
C3_CatalogWellFormed ==
    \A d \in AllDescriptors :
        d.guidArgIndex < d.argCount /\ d.interfaceArgIndex < d.argCount

\* both tables registered, with their three and two descriptors
C3_Witness ==
    /\ Cardinality(AllDescriptors) = 5
    /\ sdBs \in mBs
    /\ sdSmm \in mSmm
    /\ { d.name : d \in AllDescriptors } =
          {"HandleProtocol", "LocateProtocol", "OpenProtocol",
           "SmmHandleProtocol", "SmmLocateProtocol"}

PrimitiveLike(l) == l.b1 \/ l.b2

\* the reference predicate of IsPODArray for depth D
ReferencePOD(tif, D) ==
    /\ tif.is_array
    /\ \E k \in 0..(Len(tif.elem) - 1) :
          /\ U32Le(U32(0, k), D)
          /\ \A j \in 1..k : ~PrimitiveLike(tif.elem[j])
          /\ PrimitiveLike(tif.elem[k + 1])

\* C4: IsPODArray(type, D) is the reference predicate, for every depth D.
C4_EqualsReference ==
    podRet.called => podRet.ret = ReferencePOD(podArg.tif, podArg.ptrDepth)

\* C5: on an array the loop body runs at least once, and at most
\* ptrDepth + 1 times, for every 32-bit ptrDepth.
C5_LoopRunsAtLeastOnce ==
    podRet.called /\ podArg.tif.is_array =>
        /\ podRet.checks >= 1
        /\ U32Le(U32(0, podRet.checks - 1), podArg.ptrDepth)

\* the member OffsetOf looks for, if the type has it
HasMember(tif, name) == \E i \in 1..Len(tif.members) : tif.members[i].name = name
MemberOffset(tif, name) ==
    (CHOOSE m \in { tif.members[i] : i \in 1..Len(tif.members) } :
        m.name = name).offset

\* C6: with the layout at hand and the member present OffsetOf succeeds and
\* reports the member's bit offset divided by 8; otherwise it fails and
\* leaves *offset as it was.
C6_ExactByteOffset ==
    offRet.called =>
        IF offArg.tif.udtOk /\ HasMember(offArg.tif, offArg.name)
        THEN /\ offRet.ret
             /\ U32ToU64(offRet.offset) =
                   U64Shr3(MemberOffset(offArg.tif, offArg.name))
        ELSE /\ ~offRet.ret
             /\ offRet.offset = offArg.offset

BootOffsets == {152, 320, 280}
SmmOffsets == {184, 208}

\* C7: a traversal that visits a call whose offset is none of its table's
\* offsets leaves the store as it is and moves on to the next call.
C7_ForeignOffsetNotRetyped ==
    [][ /\ (pc = "visitBs" /\ pos <= Len(cfunc.body)
              /\ cfunc.body[pos].offset \notin BootOffsets)
           => (store' = store /\ pc' = "visitBs" /\ pos' = pos + 1)
        /\ (pc = "visitSmm" /\ pos <= Len(cfunc.body)
              /\ cfunc.body[pos].offset \notin SmmOffsets)
           => (store' = store /\ pc' = "visitSmm" /\ pos' = pos + 1) ]_vars

\* the boot-services traversal has passed a call through an SMM offset and
\* stands at a following call
C7_Witness ==
    /\ pc = "visitBs"
    /\ pos >= 2
    /\ pos <= Len(cfunc.body)
    /\ cfunc.body[pos - 1].offset = 208
    /\ cfunc.body[pos - 1].guid = "known"

RetypersAgree ==
    /\ retyperBs.codeEa = retyperSmm.codeEa
    /\ retyperBs.funcEa = retyperSmm.funcEa
    /\ retyperBs.protocols = retyperSmm.protocols

ConfiguredForRecord ==
    /\ retyperBs.codeEa = protocols[idx].ea
    /\ retyperSmm.codeEa = protocols[idx].ea
    /\ retyperBs.funcEa = get_func(protocols[idx].ea).start_ea
    /\ retyperSmm.funcEa = get_func(protocols[idx].ea).start_ea

TraversalBegun == pc = "applyBs" \/ \E e \in Logged : e.ev = "bsBegin"

SetupDone ==
    /\ sdBs = [name |-> "EFI_BOOT_SERVICES", targets |-> BootServicesFunctions]
    /\ sdSmm = [name |-> "_EFI_SMM_SYSTEM_TABLE2", targets |-> SmmServicesFunctions]
    /\ mBs = {sdBs}
    /\ mSmm = {sdSmm}
    /\ retyperBs.constructed /\ retyperBs.services = "mBs"
    /\ retyperSmm.constructed /\ retyperSmm.services = "mSmm"
    /\ retyperBs.protocols = protocols
    /\ retyperSmm.protocols = protocols

\* C9: when the first traversal begins both tables are initialised and
\* registered and both retypers hold the full record set; from then on the
\* tables, the maps and the retypers' record sets stay as they are.
C9_SetupBeforeTraversal ==
    /\ [](TraversalBegun => SetupDone)
    /\ [][TraversalBegun =>
            /\ UNCHANGED <<sdBs, sdSmm, mBs, mSmm>>
            /\ retyperBs'.protocols = retyperBs.protocols
            /\ retyperSmm'.protocols = retyperSmm.protocols]_vars

\* the second record is being traversed, after the first one was
C9_Witness ==
    /\ pc = "visitSmm"
    /\ idx = 2
    /\ Event("smmEnd", 1) \in Logged
    /\ SetupDone

\* d' + 1 fits the signed loop counter
FitsCounter(d) == d.hi < HalfLimb /\ ~(d.hi = HalfLimb - 1 /\ d.lo = Limb - 1)

\* C10: an array accepted at depth d is accepted at every depth d' >= d
\* whose successor fits the signed loop counter.
C10_MonotoneInDepth ==
    podRet.called /\ podRet.ret =>
        \A d \in PtrDepths :
            U32Le(podArg.ptrDepth, d) /\ FitsCounter(d) =>
                IsPODArray(podArg.tif, d).ret

\* an array of pointers accepted at depth 1 only through the strip
C10_Witness ==
    /\ podRet.called
    /\ podRet.ret
    /\ podArg.ptrDepth = U32(0, 1)
    /\ ~PrimitiveLike(podArg.tif.elem[1])
    /\ \E d \in PtrDepths : d # podArg.ptrDepth /\ U32Le(podArg.ptrDepth, d)
                              /\ FitsCounter(d)

=============================================================================
